---- MODULE Spec2Model ----
(***************************************************************************)
(* State-machine model of pydoop's bridged HDFS core                       *)
(* (pydoop/hdfs/core/bridged/hadoop.py): the filesystem handle CoreHdfsFs  *)
(* and the file handle CoreHdfsFile, over a backend (the Hadoop            *)
(* FileSystem / FSData*Stream objects) modelled by its call contract.      *)
(***************************************************************************)
EXTENDS Integers, Sequences, FiniteSets, TLC

(***************************************************************************)
(* Bounds of the model.                                                    *)
(***************************************************************************)
MaxLen == 2
MaxHandles == 2
\* BUFSIZE, the default read-chunk size imported from pydoop.hdfs.common, scaled
\* down to a size that still exceeds every file of the model
BUFSIZE == 4

(***************************************************************************)
(* Program constants.                                                      *)
(***************************************************************************)
\* os.O_* as used by open_file (values of the Linux build of Python's os).
O_RDONLY == 0
O_WRONLY == 1
O_RDWR == 2
O_CREAT == 64
O_EXCL == 128
O_APPEND == 1024
\* CoreHdfsFile._INPUT / _OUTPUT
_INPUT == 0
_OUTPUT == 1
\* fallbacks handed to Configuration.getInt in open_file
BUFF_SIZE_FALLBACK == 4096
REPLICATION_FALLBACK == 1

\* absent values
None == "None"
Unset == -1
\* a handle's _stream when it holds no stream object (stream objects are 1, 2, ...)
NoStream == 0

\* the paths callers use: one real path, and the empty string
Paths == {"a"}
EmptyPath == ""
\* byte values the callers write (Python str elements, 0..255)
ByteVals == {65, 200}

RECURSIVE BSeq(_)
\* all byte strings over ByteVals up to length n
BSeq(n) == IF n = 0 THEN {<<>>}
           ELSE LET S == BSeq(n - 1)
                IN  S \cup {Append(s, b) : s \in {t \in S : Len(t) = n - 1}, b \in ByteVals}

RECURSIVE BitAnd(_, _)
\* Python's integer & on non-negative integers
BitAnd(a, b) == IF a = 0 \/ b = 0 THEN 0
                ELSE (a % 2) * (b % 2) + 2 * BitAnd(a \div 2, b \div 2)

BitOr(a, b) == a + b - BitAnd(a, b)

\* O_ACCMODE = os.O_RDONLY | os.O_RDWR | os.O_WRONLY
O_ACCMODE == BitOr(BitOr(O_RDONLY, O_RDWR), O_WRONLY)

Min(a, b) == IF a < b THEN a ELSE b

(***************************************************************************)
(* Byte marshaling.                                                        *)
(***************************************************************************)
\* wrap_array("byte")(data): a Python str as a Java byte[] (signed bytes)
jbytearray(data) == [i \in 1..Len(data) |-> IF data[i] >= 128 THEN data[i] - 256 ELSE data[i]]

\* mutant: the backend's signed byte handed to chr() as it is
chr_norm_raw(x) == x
\* mutant: the sign is dropped instead of wrapped
chr_norm_abs(x) == IF x < 0 THEN -x ELSE x
\* chr((x+256)%256): one backend byte as a Python str element
chr_norm(x) == (x + 256) % 256

\* ByteBuffer.allocate(length).array(): a zero-filled Java byte[] of `size`
\* elements, kept as its size and the prefix a read has filled (the rest is 0)
allocate(length) == [size |-> length, data |-> <<>>]

\* element i (1-based) of the array
buf_at(buf, i) == IF i <= Len(buf.data) THEN buf.data[i] ELSE 0

\* where the Python slice buf[:n] stops (a negative n counts from the end)
slice_stop(buf, n) ==
    IF n < 0 THEN (IF buf.size + n < 0 THEN 0 ELSE buf.size + n)
    ELSE Min(n, buf.size)

\* ''.join(map(lambda x: chr((x+256)%256), buf[:n]))
join_map(buf, n) == [i \in 1..slice_stop(buf, n) |-> chr_norm(buf_at(buf, i))]

(***************************************************************************)
(* State.                                                                  *)
(***************************************************************************)
VARIABLES
    conf,      \* the Configuration object: property name -> value or Unset
    files,     \* backend: path -> file (absent, or its content as Java bytes)
    handles,   \* the CoreHdfsFile objects made so far: _mode, _stream, _stream_type, _buffered_stream
               \* and the bytes that wrapper holds
    streams,   \* backend stream objects, streams[i] behind handles[i]: path, pos, closed
    last,      \* the last call made by the caller and its outcome
    written,   \* history: path -> the Python str (elements 0..255) its content was written from
    conn,      \* the CoreHdfsFs object: _host, _port, _user and the backend FileSystem in _fs
    ns         \* backend: the namespace entries the administrative calls act on

vars == <<conf, files, handles, streams, last, written, conn, ns>>

(***************************************************************************)
(* CoreHdfsFs.__init__ and _connect                                        *)
(***************************************************************************)
\* `if self._user:` the Python truth of a str or None
truthy(s) == s # None /\ s # ""

\* mutant: "default" selects the cluster default whatever the port is
connect_branch_anyport(host, port) ==
    IF host = None \/ host = "" THEN "local"
    ELSE IF host = "default" THEN "default"
    ELSE "uri"
\* the three-way branch of _connect on (self._host, self._port)
connect_branch(host, port) ==
    IF host = None \/ host = "" THEN "local"
    ELSE IF host = "default" /\ port = 0 THEN "default"
    ELSE "uri"

\* no URI: getLocal takes none
NoUri == [kind |-> "none", scheme |-> None, host |-> None, port |-> 0]
\* FileSystem.getDefaultUri(conf)
DefaultUri == [kind |-> "default", scheme |-> None, host |-> None, port |-> 0]
\* URI.create("hdfs://%s:%s" % (self._host, self._port))
ExplicitUri(host, port) == [kind |-> "explicit", scheme |-> "hdfs", host |-> host, port |-> port]

\* the backend FileSystem object: the factory call that made it, the URI and
\* user that call was given (None: not passed), whether it is open, and its
\* working directory
FileSystem(how, uri, user) == [how |-> how, uri |-> uri, user |-> user, open |-> TRUE, wd |-> "/"]
NoFileSystem == [how |-> "none", uri |-> NoUri, user |-> None, open |-> FALSE, wd |-> "/"]

\* the FileSystem _connect stores in self._fs
_connect(host, port, user) ==
    LET b   == connect_branch(host, port)
        uri == IF b = "default" THEN DefaultUri ELSE ExplicitUri(host, port)
    IN  IF b = "local" THEN FileSystem("getLocal(conf)", NoUri, None)
        ELSE IF truthy(user) THEN FileSystem("get(uri, conf, user)", uri, user)
        ELSE FileSystem("get(uri, conf)", uri, None)

\* the CoreHdfsFs object once __init__ has returned
CoreHdfsFs(host, port, user) ==
    [_host |-> host, _port |-> port, _user |-> user, _fs |-> _connect(host, port, user)]

(***************************************************************************)
(* The backend namespace the administrative calls act on: a directory /d   *)
(* and two files under it.  The file `files` holds the content of is       *)
(* opened, read and written but is not the subject of these calls.         *)
(***************************************************************************)
NsPaths == {"/d", "/d/x", "/d/y"}

\* Path.getParent()
Parent(p) == IF p = "/d" THEN "/" ELSE "/d"
\* Path.getName()
Name(p) == IF p = "/" THEN "" ELSE IF p = "/d" THEN "d" ELSE IF p = "/d/x" THEN "x" ELSE "y"
\* Path.depth()
Depth(p) == IF p = "/" THEN 0 ELSE IF p = "/d" THEN 1 ELSE 2

\* a namespace entry: the FileStatus the backend keeps for a path
Absent  == [exists |-> FALSE, dir |-> FALSE, owner |-> None, group |-> None,
            perm |-> 0, repl |-> 0, mtime |-> 0, atime |-> 0, len |-> 0]
NewDir  == [exists |-> TRUE, dir |-> TRUE, owner |-> "hdfs", group |-> "supergroup",
            perm |-> 493, repl |-> 0, mtime |-> 0, atime |-> 0, len |-> 0]
NewFile == [exists |-> TRUE, dir |-> FALSE, owner |-> "hdfs", group |-> "supergroup",
            perm |-> 420, repl |-> 1, mtime |-> 0, atime |-> 0, len |-> 0]

\* the namespaces a filesystem handle may find: /d absent, or present with any
\* of its two files
Namespaces ==
    {[p \in NsPaths |-> Absent]} \cup
    {[p \in NsPaths |-> IF p = "/d" THEN NewDir ELSE IF p \in present THEN NewFile ELSE Absent] :
        present \in SUBSET {"/d/x", "/d/y"}}

\* a backend file: absent, or its content as Java bytes
NoFile == [exists |-> FALSE, data |-> <<>>]
File(data) == [exists |-> TRUE, data |-> data]
FileContents == {File(jbytearray(s)) : s \in BSeq(MaxLen)}

\* outcome of a call
Outcome(op, h, err, site, ret, num, bytes, bcalls) ==
    [op |-> op, h |-> h, err |-> err, site |-> site, ret |-> ret, num |-> num,
     bytes |-> bytes, bcalls |-> bcalls,
     arg |-> [path |-> None, flags |-> 0, position |-> 0, length |-> 0, data |-> <<>>,
              buff_size |-> 0, replication |-> 0, blocksize |-> 0],
     res |-> [buff |-> Unset, repl |-> Unset, bs |-> Unset, overwrite |-> FALSE, warned |-> FALSE],
     chunk_set |-> FALSE, chunk |-> <<>>, cnt |-> 0,
     via |-> None, infos |-> <<>>,
     fsarg |-> [path |-> None, to |-> None, user |-> None, group |-> None, n |-> 0, m |-> 0]]

Raise(op, h, err, site, bcalls) == Outcome(op, h, err, site, "raise", 0, <<>>, bcalls)

\* a filesystem handle just connected, no configuration property set
Init ==
    /\ conf = [n \in {"dfs.blocksize", "dfs.replication"} |-> Unset]
    /\ written \in [Paths -> BSeq(MaxLen)]
    /\ files \in [Paths -> {NoFile} \cup FileContents]
    /\ \A p \in Paths : files[p] \in {File(jbytearray(written[p]))}
                             \cup (IF written[p] = <<>> THEN {NoFile} ELSE {})
    /\ handles = <<>>
    /\ streams = <<>>
    /\ conn = CoreHdfsFs("default", 0, None)
    /\ ns = [p \in NsPaths |-> IF p = "/d" THEN NewDir ELSE Absent]
    /\ last = Outcome("init", 0, None, None, "none", 0, <<>>, <<>>)

(***************************************************************************)
(* The backend (Hadoop FileSystem and its streams), by its call contract.  *)
(***************************************************************************)
\* FileSystem.getDefaultBlockSize(path)
DefaultBlockSize == 64

\* Configuration.getInt(name, default)
getInt(name, default) == IF conf[name] = Unset THEN default ELSE conf[name]

\* HDFS grants one writer per path: an output stream still open on `path`
WriterOpen(path) ==
    \E i \in 1..Len(streams) :
        streams[i].path = path /\ streams[i].kind = "out" /\ ~streams[i].closed

\* the content an input stream reads (an absent file reads as empty)
ContentOf(path) == files[path].data

\* the counts InputStream.read(byte[size]) may report with `pos` bytes consumed:
\* 0 for an empty array, -1 at end of stream, else any 1..min(size, remaining)
ReadCounts(path, pos, size) ==
    IF size = 0 THEN {0}
    ELSE IF pos >= Len(ContentOf(path)) THEN {-1}
    ELSE 1..Min(size, Len(ContentOf(path)) - pos)

\* the counts read(position, buf, 0, length) may report: -1 at or past the end
\* (an empty request there reports -1 or 0), else as for read
PreadCounts(path, position, length) ==
    IF position >= Len(ContentOf(path)) THEN (IF length = 0 THEN {-1, 0} ELSE {-1})
    ELSE IF length = 0 THEN {0}
    ELSE 1..Min(length, Len(ContentOf(path)) - position)

\* the array after a read of `cnt` bytes from offset `from`
Filled(buf, path, from, cnt) ==
    IF cnt <= 0 THEN buf
    ELSE [buf EXCEPT !.data = SubSeq(ContentOf(path), from + 1, from + cnt)]

(***************************************************************************)
(* CoreHdfsFs.open_file                                                    *)
(***************************************************************************)
\* mutant: no path is refused
get_jpath_ok_any(path) == TRUE
\* get_jpath(path): the empty path is refused
get_jpath_ok(path) == path # EmptyPath

\* mutant: the append flag is ignored when the stream is chosen
stream_branch_noappend(accmode, flags) ==
    IF accmode = O_RDONLY THEN "open" ELSE "create"
\* the try block's three-way branch on accmode and the append flag
stream_branch(accmode, flags) ==
    IF accmode = O_RDONLY THEN "open"
    ELSE IF accmode = O_WRONLY /\ BitAnd(flags, O_APPEND) # 0 THEN "append"
    ELSE "create"

\* mutant: no access mode is refused
accmode_ok_any(accmode) == TRUE
\* mutant: only O_RDWR is refused
accmode_ok_rdwr_only(accmode) == accmode # O_RDWR
\* the access modes open_file goes on with
accmode_ok(accmode) == ~(accmode # O_WRONLY /\ accmode # O_RDONLY)

\* mutant: only the access mode of the flags is kept
CoreHdfsFile_accmode(mode, stream, stream_type) ==
    [_mode |-> BitAnd(mode, O_ACCMODE), _stream |-> stream, _stream_type |-> stream_type,
     _buffered_stream |-> IF stream_type = _OUTPUT THEN "BufferedOutputStream" ELSE None,
     _buffered_bytes |-> <<>>]
\* mutant: the stream is kept in one place shared by every handle
CoreHdfsFile_shared(mode, stream, stream_type) ==
    [_mode |-> mode, _stream |-> 1, _stream_type |-> stream_type,
     _buffered_stream |-> IF stream_type = _OUTPUT THEN "BufferedOutputStream" ELSE None,
     _buffered_bytes |-> <<>>]
\* CoreHdfsFile.__init__(mode, stream, stream_type); _buffered_bytes is what the
\* BufferedOutputStream holds, written to it and not yet passed on to the stream
CoreHdfsFile(mode, stream, stream_type) ==
    [_mode |-> mode, _stream |-> stream, _stream_type |-> stream_type,
     _buffered_stream |-> IF stream_type = _OUTPUT THEN "BufferedOutputStream" ELSE None,
     _buffered_bytes |-> <<>>]

\* mutant: the exclusive flag turns overwriting off
boolean_overwrite_unless_excl(flags) == BitAnd(flags, O_EXCL) = 0
\* boolean_overwrite = True: the create branch overwrites whatever the flags are
\* (create(path, False, ...) would throw on an existing file)
boolean_overwrite(flags) == TRUE

\* mutant: a zero buff_size is passed on as it is
default_buff_size_never(buff_size) == buff_size
\* if not buff_size: buff_size = int(conf.getInt(BLOCKSIZE_CONFIG_PROPERTY, 4096))
default_buff_size(buff_size) ==
    IF buff_size = 0 THEN getInt("dfs.blocksize", BUFF_SIZE_FALLBACK) ELSE buff_size

\* if accmode == O_WRONLY and (flags & O_APPEND) == 0 and not replication:
\*     replication = conf.getInt(REPLICATION_CONFIG_PROPERTY, 1)
default_replication(accmode, flags, replication) ==
    IF accmode = O_WRONLY /\ BitAnd(flags, O_APPEND) = 0 /\ replication = 0
    THEN getInt("dfs.replication", REPLICATION_FALLBACK)
    ELSE replication

open_file(path, flags, buff_size, replication, blocksize, fail) ==
    LET accmode == BitAnd(flags, O_ACCMODE)
        warned  == BitAnd(flags, O_CREAT) # 0 /\ BitAnd(flags, O_EXCL) # 0
        buff    == default_buff_size(buff_size)
        repl    == default_replication(accmode, flags, replication)
        branch  == stream_branch(accmode, flags)
        bs      == IF branch = "create" /\ blocksize = 0 THEN DefaultBlockSize ELSE blocksize
        calls   == IF branch = "create" /\ blocksize = 0
                   THEN <<"getDefaultBlockSize", "create">> ELSE <<branch>>
        throws  == \/ fail
                   \/ branch \in {"open", "append"} /\ files[path] = NoFile
                   \/ branch \in {"append", "create"} /\ WriterOpen(path)
                   \/ branch = "create" /\ ~boolean_overwrite(flags) /\ files[path] # NoFile
        arg     == [path |-> path, flags |-> flags, position |-> 0, length |-> 0,
                    data |-> <<>>, buff_size |-> buff_size, replication |-> replication,
                    blocksize |-> blocksize]
        res     == [buff |-> IF branch = "append" THEN Unset ELSE buff,
                    repl |-> IF branch = "create" THEN repl ELSE Unset,
                    bs |-> IF branch = "create" THEN bs ELSE Unset,
                    overwrite |-> branch = "create" /\ boolean_overwrite(flags),
                    warned |-> warned]
        id      == Len(handles) + 1
        stype   == IF branch = "open" THEN _INPUT ELSE _OUTPUT
    IN
    IF ~accmode_ok(accmode) THEN
        /\ last' = [Raise("open_file", 0, "IOError", "accmode", <<>>) EXCEPT !.arg = arg]
        /\ UNCHANGED <<conf, conn, ns, files, written, handles, streams>>
    ELSE IF ~get_jpath_ok(path) THEN
        /\ last' = [Raise("open_file", 0, "ValueError", "empty_path", <<>>)
                        EXCEPT !.arg = arg, !.res.warned = warned]
        /\ UNCHANGED <<conf, conn, ns, files, written, handles, streams>>
    ELSE IF throws THEN
        /\ last' = [Raise("open_file", 0, "IOError", "backend", calls)
                        EXCEPT !.arg = arg, !.res = res]
        /\ UNCHANGED <<conf, conn, ns, files, written, handles, streams>>
    ELSE
        /\ Len(handles) < MaxHandles
        /\ files' = IF branch = "create" THEN [files EXCEPT ![path] = File(<<>>)] ELSE files
        /\ written' = IF branch = "create" THEN [written EXCEPT ![path] = <<>>] ELSE written
        /\ streams' = Append(streams,
                [path |-> path, kind |-> IF branch = "open" THEN "in" ELSE "out",
                 pos |-> IF branch = "append" THEN Len(ContentOf(path)) ELSE 0,
                 closed |-> FALSE, how |-> branch])
        /\ handles' = Append(handles, CoreHdfsFile(flags, id, stype))
        /\ last' = [Outcome("open_file", id, None, None, "handle", id, <<>>, calls)
                        EXCEPT !.arg = arg, !.res = res]
        /\ UNCHANGED <<conf, conn, ns>>

\* every flags value made of an access mode 0..3 and the create, exclusive and append bits
AllFlags == {m + c + e + a : m \in 0..3, c \in {0, O_CREAT}, e \in {0, O_EXCL}, a \in {0, O_APPEND}}

\* a filesystem handle just connected, over any configuration and backend content
InitOpen ==
    /\ conf \in [{"dfs.blocksize", "dfs.replication"} -> {Unset, 2}]
    /\ written \in [Paths -> BSeq(MaxLen)]
    /\ files \in [Paths -> {NoFile} \cup FileContents]
    /\ \A p \in Paths : files[p] \in {File(jbytearray(written[p]))}
                             \cup (IF written[p] = <<>> THEN {NoFile} ELSE {})
    /\ handles = <<>>
    /\ streams = <<>>
    /\ conn = CoreHdfsFs("default", 0, None)
    /\ ns = [p \in NsPaths |-> IF p = "/d" THEN NewDir ELSE Absent]
    /\ last = Outcome("init", 0, None, None, "none", 0, <<>>, <<>>)

\* the first call on a fresh filesystem handle: open_file over its whole argument space
NextOpen ==
    \E path \in Paths \cup {EmptyPath}, flags \in AllFlags, buff_size \in {0, 8},
       replication \in {0, 3}, blocksize \in {0, 16}, fail \in BOOLEAN :
        /\ last.op = "init"
        /\ open_file(path, flags, buff_size, replication, blocksize, fail)

SpecOpen == InitOpen /\ [][NextOpen]_vars

(***************************************************************************)
(* CoreHdfsFile                                                            *)
(***************************************************************************)
\* the backend stream behind handle h
StreamOf(h) == streams[handles[h]._stream]

\* mutant: the stream type is not looked at
not_input_any(h) == handles[h]._stream = NoStream
\* not self._stream or self._stream_type != self._INPUT
not_input(h) == handles[h]._stream = NoStream \/ handles[h]._stream_type # _INPUT

\* mutant: the stream type is not looked at
not_output_any(h) == handles[h]._stream = NoStream
\* not self._stream or self._stream_type != self._OUTPUT
not_output(h) == handles[h]._stream = NoStream \/ handles[h]._stream_type # _OUTPUT

\* the argument record of a file-handle call
FArg(position, length, data) ==
    [path |-> None, flags |-> 0, position |-> position, length |-> length, data |-> data,
     buff_size |-> 0, replication |-> 0, blocksize |-> 0]

available(h, fail) ==
    /\ UNCHANGED <<conf, conn, ns, files, written, handles, streams>>
    /\ IF not_input(h)
       THEN last' = Outcome("available", h, None, None, "num", -1, <<>>, <<>>)
       ELSE IF fail \/ StreamOf(h).closed
       THEN last' = Raise("available", h, "JavaException", "backend", <<"available">>)
       ELSE LET left == Len(ContentOf(StreamOf(h).path)) - StreamOf(h).pos
            IN  last' = Outcome("available", h, None, None, "num",
                                IF left < 0 THEN 0 ELSE left, <<>>, <<"available">>)

get_mode(h) ==
    /\ UNCHANGED <<conf, conn, ns, files, written, handles, streams>>
    /\ last' = Outcome("get_mode", h, None, None, "num", handles[h]._mode, <<>>, <<>>)

\* close leaves self._stream as it is; closing a closed Java stream has no effect
close(h, fail) ==
    /\ UNCHANGED <<conf, conn, ns, files, written, handles>>
    /\ IF handles[h]._stream = NoStream
       THEN /\ last' = Raise("close", h, "IOError", "stream_state", <<>>)
            /\ UNCHANGED streams
       ELSE IF fail
       THEN /\ last' = Raise("close", h, "IOError", "backend", <<"close">>)
            /\ UNCHANGED streams
       ELSE /\ last' = Outcome("close", h, None, None, "none", 0, <<>>, <<"close">>)
            /\ streams' = [streams EXCEPT ![handles[h]._stream].closed = TRUE]

\* mutant: the count comes from the stream's size, which a raw stream lacks
write_return_zero(data, length) == 0
\* return length
write_return(data, length) == length

\* mutant: the backend write is issued for an empty string too
write_calls_always(length) == <<"write">>
\* if length > 0: self._stream.write(...)
write_calls(length) == IF length > 0 THEN <<"write">> ELSE <<>>

\* mutant: _write calls the write method of the buffering wrapper
write_receiver_buffered == "_buffered_stream"
\* the attribute of the handle whose write method _write calls
write_receiver == "_stream"

_write(op, h, data, length, fail) ==
    /\ UNCHANGED <<conf, conn, ns>>
    /\ IF not_output(h)
       THEN /\ last' = Raise(op, h, "IOError", "stream_state", <<>>)
            /\ UNCHANGED <<files, written, streams, handles>>
       ELSE IF length < 0
       THEN /\ last' = Raise(op, h, "IOError", "length", <<>>)
            /\ UNCHANGED <<files, written, streams, handles>>
       ELSE IF write_calls(length) = <<>>
       THEN /\ last' = [Outcome(op, h, None, None, "num", write_return(data, length), <<>>, <<>>)
                            EXCEPT !.arg = FArg(0, length, data)]
            /\ UNCHANGED <<files, written, streams, handles>>
       ELSE IF fail \/ StreamOf(h).closed
       THEN /\ last' = Raise(op, h, "JavaException", "backend", <<"write">>)
            /\ UNCHANGED <<files, written, streams, handles>>
       ELSE /\ Len(ContentOf(StreamOf(h).path)) + Len(handles[h]._buffered_bytes) + Len(data)
                    <= MaxLen
            /\ written' = [written EXCEPT ![StreamOf(h).path] = @ \o data]
            /\ IF write_receiver = "_stream"
               THEN \* the raw stream takes the bytes
                    /\ files' = [files EXCEPT ![StreamOf(h).path] =
                                    File(ContentOf(StreamOf(h).path) \o jbytearray(data))]
                    /\ streams' = [streams EXCEPT ![handles[h]._stream].pos = @ + Len(data)]
                    /\ UNCHANGED handles
               ELSE \* a BufferedOutputStream keeps them until it is flushed
                    /\ handles' = [handles EXCEPT ![h]._buffered_bytes = @ \o jbytearray(data)]
                    /\ UNCHANGED <<files, streams>>
            /\ last' = [Outcome(op, h, None, None, "num", write_return(data, length),
                                <<>>, <<"write">>)
                            EXCEPT !.arg = FArg(0, length, data), !.via = write_receiver]

write(h, data, fail) == _write("write", h, data, Len(data), fail)

\* chunk.value of the caller's buffer is what gets written
write_chunk(h, chunk, fail) == _write("write_chunk", h, chunk, Len(chunk), fail)

tell(h, fail) ==
    /\ UNCHANGED <<conf, conn, ns, files, written, handles, streams>>
    /\ IF handles[h]._stream = NoStream
       THEN last' = Raise("tell", h, "IOError", "stream_state", <<>>)
       ELSE IF fail
       THEN last' = Raise("tell", h, "JavaException", "backend", <<"getPos">>)
       ELSE last' = Outcome("tell", h, None, None, "num", StreamOf(h).pos, <<>>, <<"getPos">>)

\* mutant: an offset one past the one asked for
seek_target_off(position) == position + 1
\* long(position)
seek_target(position) == position

seek(h, position, fail) ==
    /\ UNCHANGED <<conf, conn, ns, files, written, handles>>
    /\ IF not_input(h)
       THEN /\ last' = Raise("seek", h, "IOError", "stream_state", <<>>)
            /\ UNCHANGED streams
       ELSE IF \/ fail
               \/ StreamOf(h).closed
               \/ seek_target(position) > Len(ContentOf(StreamOf(h).path))
       THEN /\ last' = Raise("seek", h, "JavaException", "backend", <<"seek">>)
            /\ UNCHANGED streams
       ELSE /\ streams' = [streams EXCEPT ![handles[h]._stream].pos = seek_target(position)]
            /\ last' = [Outcome("seek", h, None, None, "none", 0, <<>>, <<"seek">>)
                            EXCEPT !.arg = FArg(position, 0, <<>>)]

\* mutant: no end-of-stream test, as in pread
read_result_noeof(buf, read) == join_map(buf, read)
\* mutant: the whole array is handed back, not the part the read filled
read_result_whole(buf, read) == IF read = -1 THEN <<>> ELSE join_map(buf, buf.size)
\* if read == -1: return ""; else the first `read` bytes, normalised
read_result(buf, read) == IF read = -1 THEN <<>> ELSE join_map(buf, read)

\* the bytes pread and pread_chunk hand back: buf[:read], normalised, whatever `read` is
pread_result(buf, read) == join_map(buf, read)

\* mutant: a positional read made of seek(position) and read(buf)
pread_pos_seek(pos, position, cnt) == position + (IF cnt > 0 THEN cnt ELSE 0)
\* the stream position after read(position, buf, 0, length): the positional
\* overload leaves it alone
pread_pos(pos, position, cnt) == pos

\* length == -1 stands for BUFSIZE
read_length(length) == IF length = -1 THEN BUFSIZE ELSE length

read(h, length, fail) ==
    /\ UNCHANGED <<conf, conn, ns, files, written, handles>>
    /\ IF not_input(h)
       THEN /\ last' = Raise("read", h, "IOError", "stream_state", <<>>)
            /\ UNCHANGED streams
       ELSE IF read_length(length) < 0
       THEN /\ last' = Raise("read", h, "IOError", "allocate", <<>>)
            /\ UNCHANGED streams
       ELSE IF fail \/ StreamOf(h).closed
       THEN /\ last' = Raise("read", h, "IOError", "backend", <<"read">>)
            /\ UNCHANGED streams
       ELSE \E cnt \in ReadCounts(StreamOf(h).path, StreamOf(h).pos, read_length(length)) :
            LET buf == Filled(allocate(read_length(length)), StreamOf(h).path,
                              StreamOf(h).pos, cnt)
            IN  /\ streams' = [streams EXCEPT ![handles[h]._stream].pos =
                                    @ + (IF cnt > 0 THEN cnt ELSE 0)]
                /\ last' = [Outcome("read", h, None, None, "bytes", 0,
                                    read_result(buf, cnt), <<"read">>)
                                EXCEPT !.arg = FArg(0, length, <<>>), !.cnt = cnt]

\* the chunk is given by its size, len(chunk)
read_chunk(h, size, fail) ==
    /\ UNCHANGED <<conf, conn, ns, files, written, handles>>
    /\ IF not_input(h)
       THEN /\ last' = Raise("read_chunk", h, "IOError", "stream_state", <<>>)
            /\ UNCHANGED streams
       ELSE IF fail \/ StreamOf(h).closed
       THEN /\ last' = Raise("read_chunk", h, "IOError", "backend", <<"read">>)
            /\ UNCHANGED streams
       ELSE \E cnt \in ReadCounts(StreamOf(h).path, StreamOf(h).pos, size) :
            LET buf == Filled(allocate(size), StreamOf(h).path, StreamOf(h).pos, cnt)
            IN  /\ streams' = [streams EXCEPT ![handles[h]._stream].pos =
                                    @ + (IF cnt > 0 THEN cnt ELSE 0)]
                /\ IF cnt = -1
                   THEN last' = [Outcome("read_chunk", h, None, None, "bytes", 0,
                                         <<>>, <<"read">>)
                                     EXCEPT !.arg = FArg(0, size, <<>>), !.cnt = cnt]
                   ELSE last' = [Outcome("read_chunk", h, None, None, "num", cnt,
                                         <<>>, <<"read">>)
                                     EXCEPT !.arg = FArg(0, size, <<>>), !.cnt = cnt,
                                            !.chunk_set = TRUE,
                                            !.chunk = join_map(buf, cnt)]

pread(h, position, length, fail) ==
    /\ UNCHANGED <<conf, conn, ns, files, written, handles>>
    /\ IF not_input(h)
       THEN /\ last' = Raise("pread", h, "IOError", "stream_state", <<>>)
            /\ UNCHANGED streams
       ELSE IF read_length(length) < 0
       THEN /\ last' = Raise("pread", h, "IOError", "allocate", <<>>)
            /\ UNCHANGED streams
       ELSE IF fail \/ StreamOf(h).closed
       THEN /\ last' = Raise("pread", h, "IOError", "backend", <<"pread">>)
            /\ UNCHANGED streams
       ELSE \E cnt \in PreadCounts(StreamOf(h).path, position, read_length(length)) :
            LET buf == Filled(allocate(read_length(length)), StreamOf(h).path, position, cnt)
            IN  /\ streams' = [streams EXCEPT ![handles[h]._stream].pos =
                                    pread_pos(@, position, cnt)]
                /\ last' = [Outcome("pread", h, None, None, "bytes", 0,
                                    pread_result(buf, cnt), <<"pread">>)
                                EXCEPT !.arg = FArg(position, length, <<>>), !.cnt = cnt]

pread_chunk(h, position, size, fail) ==
    /\ UNCHANGED <<conf, conn, ns, files, written, handles>>
    /\ IF not_input(h)
       THEN /\ last' = Raise("pread_chunk", h, "IOError", "stream_state", <<>>)
            /\ UNCHANGED streams
       ELSE IF fail \/ StreamOf(h).closed
       THEN /\ last' = Raise("pread_chunk", h, "IOError", "backend", <<"pread">>)
            /\ UNCHANGED streams
       ELSE \E cnt \in PreadCounts(StreamOf(h).path, position, size) :
            LET buf == Filled(allocate(size), StreamOf(h).path, position, cnt)
            IN  /\ streams' = [streams EXCEPT ![handles[h]._stream].pos =
                                    pread_pos(@, position, cnt)]
                /\ last' = [Outcome("pread_chunk", h, None, None, "num", cnt,
                                    <<>>, <<"pread">>)
                                EXCEPT !.arg = FArg(position, size, <<>>), !.cnt = cnt,
                                       !.chunk_set = TRUE,
                                       !.chunk = pread_result(buf, cnt)]

flush(h, fail) ==
    /\ UNCHANGED <<conf, conn, ns, files, written, handles, streams>>
    /\ IF not_output(h)
       THEN last' = Raise("flush", h, "IOError", "stream_state", <<>>)
       ELSE IF fail
       THEN last' = Raise("flush", h, "JavaException", "backend", <<"flush">>)
       ELSE last' = Outcome("flush", h, None, None, "none", 0, <<>>, <<"flush">>)

(***************************************************************************)
(* CoreHdfsFs: the administrative calls.  `fail` names the backend call    *)
(* that throws ("none": no call does).                                     *)
(***************************************************************************)
\* the argument record of an administrative call
FsArg(path, to, user, group, n, m) ==
    [path |-> path, to |-> to, user |-> user, group |-> group, n |-> n, m |-> m]

FsRaise(op, a, err, site, bcalls) ==
    [Raise(op, 0, err, site, bcalls) EXCEPT !.fsarg = a]
FsReturn(op, a, ret, num, infos, bcalls) ==
    [Outcome(op, 0, None, None, ret, num, <<>>, bcalls) EXCEPT !.fsarg = a, !.infos = infos]

\* what the administrative calls leave alone: the configuration, the opened
\* file and the file handles
FsFrame == UNCHANGED <<conf, files, handles, streams, written>>

\* the entry the backend holds for a path (none for a path it does not know)
Entry(p) == IF p \in NsPaths THEN ns[p] ELSE Absent

\* FileSystem.getFileStatus(path): the status object of an existing path
getFileStatus(p) ==
    [path |-> p, group |-> Entry(p).group, owner |-> Entry(p).owner, perm |-> Entry(p).perm,
     repl |-> Entry(p).repl, mtime |-> Entry(p).mtime, atime |-> Entry(p).atime,
     len |-> Entry(p).len]

\* FileSystem.listStatus(path): the statuses of a directory's children in
\* name order; the path's own status for a file
listStatus(p) ==
    IF Entry(p).dir
    THEN LET kids == SelectSeq(<<"/d/x", "/d/y">>, LAMBDA c : Parent(c) = p /\ Entry(c).exists)
         IN  [i \in 1..Len(kids) |-> getFileStatus(kids[i])]
    ELSE <<getFileStatus(p)>>

\* Long.valueOf(t).intValue(): the low 32 bits of t as a signed int (a long
\* one wrap above or below the int range comes back into it)
intValue(t) ==
    LET MaxInt == 2147483647 IN
    IF t > MaxInt THEN ((t - MaxInt) - MaxInt) - 2
    ELSE IF t < (-MaxInt) - 1 THEN ((t + MaxInt) + MaxInt) + 2
    ELSE t

\* the backend calls _get_jpath_info makes once it has a status
InfoCalls == <<"isDirectory", "getBlockSize", "getUri">>

\* _get_jpath_info(jpath, jstatus) with the status at hand
_get_jpath_info(jpath, jstatus) ==
    [name |-> jpath,
     kind |-> IF Entry(jpath).exists /\ Entry(jpath).dir THEN "directory" ELSE "file",
     group |-> jstatus.group,
     last_mod |-> intValue(jstatus.mtime),
     last_access |-> intValue(jstatus.atime),
     replication |-> jstatus.repl,
     owner |-> jstatus.owner,
     permissions |-> jstatus.perm,
     block_size |-> IF Entry(jpath).dir THEN 0 ELSE DefaultBlockSize,
     path |-> jstatus.path,
     fs_uri |-> conn._fs.uri,
     depth |-> Depth(jpath),
     size |-> jstatus.len,
     absolute |-> TRUE,
     parent |-> Name(Parent(jpath))]

chmod(path, mode, fail) ==
    LET a == FsArg(path, None, None, None, mode, 0) IN
    /\ FsFrame /\ UNCHANGED conn
    /\ IF ~get_jpath_ok(path)
       THEN last' = FsRaise("chmod", a, "ValueError", "empty_path", <<>>) /\ UNCHANGED ns
       ELSE IF fail # "none" \/ ~Entry(path).exists
       THEN last' = FsRaise("chmod", a, "JavaException", "backend", <<"setPermission">>)
            /\ UNCHANGED ns
       ELSE /\ ns' = [ns EXCEPT ![path].perm = mode]
            /\ last' = FsReturn("chmod", a, "none", 0, <<>>, <<"setPermission">>)

\* mutant: a missing user or group is handed to setOwner as it is
chown_fill_never(value, old) == value
\* if value is None or value == '': value = old_path_info[...]
chown_fill(value, old) == IF value = None \/ value = "" THEN old ELSE value

\* mutant: a status that cannot be fetched does not stop chown, which goes on
\* to the setOwner call
chown_status_ignored(path, user, group, fail) ==
    LET a    == FsArg(path, None, user, group, 0, 0)
        info == _get_jpath_info(path, getFileStatus(path))
        u    == chown_fill(user, info.owner)
        g    == chown_fill(group, info.group)
    IN
    /\ FsFrame /\ UNCHANGED conn
    /\ IF (user = None \/ user = "") /\ (group = None \/ group = "")
       THEN last' = FsRaise("chown", a, "Exception", "both_empty", <<>>) /\ UNCHANGED ns
       ELSE IF ~get_jpath_ok(path)
       THEN last' = FsRaise("chown", a, "ValueError", "empty_path", <<>>) /\ UNCHANGED ns
       ELSE IF fail # "none" \/ ~Entry(path).exists
       THEN last' = FsRaise("chown", a, "JavaException", "backend",
                            <<"getFileStatus", "setOwner">>)
            /\ UNCHANGED ns
       ELSE /\ ns' = [ns EXCEPT ![path].owner = u, ![path].group = g]
            /\ last' = FsReturn("chown", a, "none", 0, <<>>,
                                <<"getFileStatus">> \o InfoCalls \o <<"setOwner">>)

chown(path, user, group, fail) ==
    LET a    == FsArg(path, None, user, group, 0, 0)
        info == _get_jpath_info(path, getFileStatus(path))
        u    == chown_fill(user, info.owner)
        g    == chown_fill(group, info.group)
    IN
    /\ FsFrame /\ UNCHANGED conn
    /\ IF (user = None \/ user = "") /\ (group = None \/ group = "")
       THEN last' = FsRaise("chown", a, "Exception", "both_empty", <<>>) /\ UNCHANGED ns
       ELSE IF ~get_jpath_ok(path)
       THEN last' = FsRaise("chown", a, "ValueError", "empty_path", <<>>) /\ UNCHANGED ns
       ELSE IF fail = "getFileStatus" \/ ~Entry(path).exists
       THEN last' = FsRaise("chown", a, "IOError", "status", <<"getFileStatus">>)
            /\ UNCHANGED ns
       ELSE IF fail = "setOwner"
       THEN last' = FsRaise("chown", a, "JavaException", "backend",
                            <<"getFileStatus">> \o InfoCalls \o <<"setOwner">>)
            /\ UNCHANGED ns
       ELSE /\ ns' = [ns EXCEPT ![path].owner = u, ![path].group = g]
            /\ last' = FsReturn("chown", a, "none", 0, <<>>,
                                <<"getFileStatus">> \o InfoCalls \o <<"setOwner">>)

exists(path, fail) ==
    LET a == FsArg(path, None, None, None, 0, 0) IN
    /\ FsFrame /\ UNCHANGED <<conn, ns>>
    /\ IF ~get_jpath_ok(path)
       THEN last' = FsRaise("exists", a, "ValueError", "empty_path", <<>>)
       ELSE IF fail # "none"
       THEN last' = FsRaise("exists", a, "JavaException", "backend", <<"exists">>)
       ELSE last' = FsReturn("exists", a, "bool", IF Entry(path).exists THEN 1 ELSE 0,
                             <<>>, <<"exists">>)

create_directory(path, fail) ==
    LET a == FsArg(path, None, None, None, 0, 0) IN
    /\ FsFrame /\ UNCHANGED conn
    /\ IF ~get_jpath_ok(path)
       THEN last' = FsRaise("create_directory", a, "ValueError", "empty_path", <<>>)
            /\ UNCHANGED ns
       ELSE IF fail # "none" \/ path \notin NsPaths \/ (Entry(path).exists /\ ~Entry(path).dir)
       THEN last' = FsRaise("create_directory", a, "JavaException", "backend", <<"mkdirs">>)
            /\ UNCHANGED ns
       ELSE /\ ns' = IF Entry(path).exists THEN ns ELSE [ns EXCEPT ![path] = NewDir]
            /\ last' = FsReturn("create_directory", a, "bool", 1, <<>>, <<"mkdirs">>)

\* the paths at or under p
Subtree(p) == {q \in NsPaths : q = p \/ Parent(q) = p}

delete(path, recursive, fail) ==
    LET a == FsArg(path, None, None, None, IF recursive THEN 1 ELSE 0, 0) IN
    /\ FsFrame /\ UNCHANGED conn
    /\ IF ~get_jpath_ok(path)
       THEN last' = FsRaise("delete", a, "ValueError", "empty_path", <<>>) /\ UNCHANGED ns
       ELSE IF \/ fail # "none"
               \/ ~recursive /\ \E q \in Subtree(path) \ {path} : Entry(q).exists
       THEN last' = FsRaise("delete", a, "JavaException", "backend", <<"delete">>)
            /\ UNCHANGED ns
       ELSE /\ ns' = IF Entry(path).exists
                     THEN [q \in NsPaths |-> IF q \in Subtree(path) THEN Absent ELSE ns[q]]
                     ELSE ns
            /\ last' = FsReturn("delete", a, "none", 0, <<>>, <<"delete">>)

get_path_info(path, fail) ==
    LET a == FsArg(path, None, None, None, 0, 0) IN
    /\ FsFrame /\ UNCHANGED <<conn, ns>>
    /\ IF ~get_jpath_ok(path)
       THEN last' = FsRaise("get_path_info", a, "ValueError", "empty_path", <<>>)
       ELSE IF fail # "none" \/ ~Entry(path).exists
       THEN last' = FsRaise("get_path_info", a, "IOError", "status", <<"getFileStatus">>)
       ELSE last' = FsReturn("get_path_info", a, "info", 0,
                             <<_get_jpath_info(path, getFileStatus(path))>>,
                             <<"getFileStatus">> \o InfoCalls)

get_hosts(path, start, length, fail) ==
    LET a == FsArg(path, None, None, None, start, length) IN
    /\ FsFrame /\ UNCHANGED <<conn, ns>>
    /\ IF ~get_jpath_ok(path)
       THEN last' = FsRaise("get_hosts", a, "ValueError", "empty_path", <<>>)
       ELSE IF fail = "getFileStatus" \/ ~Entry(path).exists
       THEN last' = FsRaise("get_hosts", a, "JavaException", "backend", <<"getFileStatus">>)
       ELSE IF fail # "none"
       THEN last' = FsRaise("get_hosts", a, "JavaException", "backend",
                            <<"getFileStatus", "getFileBlockLocations">>)
       ELSE last' = FsReturn("get_hosts", a, "list", 0, <<>>,
                             <<"getFileStatus", "getFileBlockLocations">>)

set_working_directory(path, fail) ==
    LET a == FsArg(path, None, None, None, 0, 0) IN
    /\ FsFrame /\ UNCHANGED ns
    /\ IF ~get_jpath_ok(path)
       THEN last' = FsRaise("set_working_directory", a, "ValueError", "empty_path", <<>>)
            /\ UNCHANGED conn
       ELSE IF fail # "none"
       THEN last' = FsRaise("set_working_directory", a, "JavaException", "backend",
                            <<"setWorkingDirectory">>)
            /\ UNCHANGED conn
       ELSE /\ conn' = [conn EXCEPT !._fs.wd = path]
            /\ last' = FsReturn("set_working_directory", a, "none", 0, <<>>,
                                <<"setWorkingDirectory">>)

set_replication(path, replication, fail) ==
    LET a == FsArg(path, None, None, None, replication, 0) IN
    /\ FsFrame /\ UNCHANGED conn
    /\ IF ~get_jpath_ok(path)
       THEN last' = FsRaise("set_replication", a, "ValueError", "empty_path", <<>>)
            /\ UNCHANGED ns
       ELSE IF fail # "none"
       THEN last' = FsRaise("set_replication", a, "JavaException", "backend",
                            <<"setReplication">>)
            /\ UNCHANGED ns
       ELSE /\ ns' = IF Entry(path).exists /\ ~Entry(path).dir
                     THEN [ns EXCEPT ![path].repl = replication] ELSE ns
            /\ last' = FsReturn("set_replication", a, "none", 0, <<>>, <<"setReplication">>)

utime(path, mtime, atime, fail) ==
    LET a == FsArg(path, None, None, None, mtime, atime) IN
    /\ FsFrame /\ UNCHANGED conn
    /\ IF ~get_jpath_ok(path)
       THEN last' = FsRaise("utime", a, "ValueError", "empty_path", <<>>) /\ UNCHANGED ns
       ELSE IF fail # "none" \/ ~Entry(path).exists
       THEN last' = FsRaise("utime", a, "JavaException", "backend", <<"setTimes">>)
            /\ UNCHANGED ns
       ELSE /\ ns' = [ns EXCEPT ![path].mtime = mtime, ![path].atime = atime]
            /\ last' = FsReturn("utime", a, "none", 0, <<>>, <<"setTimes">>)

rename(from_path, to_path, fail) ==
    LET a == FsArg(from_path, to_path, None, None, 0, 0) IN
    /\ FsFrame /\ UNCHANGED conn
    /\ IF ~get_jpath_ok(from_path) \/ ~get_jpath_ok(to_path)
       THEN last' = FsRaise("rename", a, "ValueError", "empty_path", <<>>) /\ UNCHANGED ns
       ELSE IF fail # "none"
       THEN last' = FsRaise("rename", a, "JavaException", "backend", <<"rename">>)
            /\ UNCHANGED ns
       ELSE /\ ns' = IF /\ Entry(from_path).exists /\ ~Entry(from_path).dir
                        /\ to_path \in NsPaths /\ ~Entry(to_path).exists
                        /\ Entry(Parent(to_path)).exists
                     THEN [ns EXCEPT ![to_path] = ns[from_path], ![from_path] = Absent]
                     ELSE ns
            /\ last' = FsReturn("rename", a, "none", 0, <<>>, <<"rename">>)

\* FileUtil.copy(self._fs, src, to_hdfs._fs, dst, delete_source, conf), with
\* to_hdfs this same filesystem handle: a file is copied over the destination
_copy_helper(op, from_path, to_path, delete_source, fail) ==
    LET a == FsArg(from_path, to_path, None, None, 0, 0) IN
    /\ FsFrame /\ UNCHANGED conn
    /\ IF ~get_jpath_ok(from_path) \/ ~get_jpath_ok(to_path)
       THEN last' = FsRaise(op, a, "ValueError", "empty_path", <<>>) /\ UNCHANGED ns
       ELSE IF \/ fail # "none"
               \/ ~Entry(from_path).exists \/ Entry(from_path).dir
               \/ to_path \notin NsPaths \/ Entry(to_path).dir
               \/ ~Entry(Parent(to_path)).exists
       THEN last' = FsRaise(op, a, "JavaException", "backend", <<"copy">>) /\ UNCHANGED ns
       ELSE /\ ns' = [q \in NsPaths |->
                        IF q = to_path THEN [NewFile EXCEPT !.len = ns[from_path].len]
                        ELSE IF q = from_path /\ delete_source THEN Absent
                        ELSE ns[q]]
            /\ last' = FsReturn(op, a, "none", 0, <<>>, <<"copy">>)

copy(from_path, to_path, fail) == _copy_helper("copy", from_path, to_path, FALSE, fail)
move(from_path, to_path, fail) == _copy_helper("move", from_path, to_path, TRUE, fail)

\* mutant: every record is built for the listed directory's own path
list_item_of_directory(jpath, jstatus) == _get_jpath_info(jpath, jstatus)
\* self._get_jpath_info(jstatus.getPath(), jstatus)
list_item(jpath, jstatus) == _get_jpath_info(jstatus.path, jstatus)

list_directory(path, fail) ==
    LET a   == FsArg(path, None, None, None, 0, 0)
        sts == listStatus(path)
    IN
    /\ FsFrame /\ UNCHANGED <<conn, ns>>
    /\ IF ~get_jpath_ok(path)
       THEN last' = FsRaise("list_directory", a, "ValueError", "empty_path", <<>>)
       ELSE IF fail = "exists"
       THEN last' = FsRaise("list_directory", a, "JavaException", "backend", <<"exists">>)
       ELSE IF ~Entry(path).exists
       THEN last' = FsRaise("list_directory", a, "IOError", "not_found", <<"exists">>)
       ELSE IF fail # "none"
       THEN last' = FsRaise("list_directory", a, "JavaException", "backend",
                            <<"exists", "listStatus">>)
       ELSE last' = FsReturn("list_directory", a, "list", Len(sts),
                             [i \in 1..Len(sts) |-> list_item(path, sts[i])],
                             <<"exists", "listStatus">>)

\* a filesystem handle connected to any of the namespaces
InitFs ==
    /\ conf = [n \in {"dfs.blocksize", "dfs.replication"} |-> Unset]
    /\ written = [p \in Paths |-> <<>>]
    /\ files = [p \in Paths |-> NoFile]
    /\ handles = <<>>
    /\ streams = <<>>
    /\ conn = CoreHdfsFs("default", 0, None)
    /\ ns \in Namespaces
    /\ last = Outcome("init", 0, None, None, "none", 0, <<>>, <<>>)

\* the callers of the administrative calls
NextFs ==
    \/ \E path \in {"/d/y", EmptyPath}, fail \in {"none", "setPermission"} :
            chmod(path, 448, fail)
    \/ \E path \in {"/d/x", EmptyPath}, user \in {None, "", "alice"},
          group \in {None, "", "staff"}, fail \in {"none", "getFileStatus", "setOwner"} :
            chown(path, user, group, fail)
    \/ \E path \in NsPaths \cup {EmptyPath}, fail \in {"none", "exists"} : exists(path, fail)
    \/ \E path \in {"/d", EmptyPath}, fail \in {"none", "mkdirs"} : create_directory(path, fail)
    \/ \E path \in NsPaths \cup {EmptyPath}, recursive \in BOOLEAN, fail \in {"none", "delete"} :
            delete(path, recursive, fail)
    \/ \E path \in NsPaths \cup {EmptyPath}, fail \in {"none", "getFileStatus"} :
            get_path_info(path, fail)
    \/ \E path \in {"/d/x", EmptyPath},
          fail \in {"none", "getFileStatus", "getFileBlockLocations"} :
            get_hosts(path, 0, 1, fail)
    \/ \E path \in {"/d", EmptyPath}, fail \in {"none", "setWorkingDirectory"} :
            set_working_directory(path, fail)
    \/ \E path \in {"/d/y", EmptyPath}, fail \in {"none", "setReplication"} :
            set_replication(path, 3, fail)
    \/ \E path \in {"/d/y", EmptyPath}, fail \in {"none", "setTimes"} : utime(path, 5, 7, fail)
    \/ \E from_path \in {"/d/x", EmptyPath}, to_path \in {"/d/y", EmptyPath},
          fail \in {"none", "rename"} :
            rename(from_path, to_path, fail)
    \/ \E from_path \in {"/d/x", EmptyPath}, to_path \in {"/d/y", EmptyPath},
          fail \in {"none", "copy"} :
            copy(from_path, to_path, fail)
    \/ \E from_path \in {"/d/x", EmptyPath}, to_path \in {"/d/y", EmptyPath},
          fail \in {"none", "copy"} :
            move(from_path, to_path, fail)
    \/ \E path \in NsPaths \cup {EmptyPath}, fail \in {"none", "exists", "listStatus"} :
            list_directory(path, fail)

SpecFs == InitFs /\ [][NextFs]_vars

\* CoreHdfsFs(host, port, user): __init__ stores its arguments and calls
\* _connect; a backend factory call that throws ends the construction
connect(fail) ==
    /\ conn._fs = NoFileSystem
    /\ FsFrame /\ UNCHANGED ns
    /\ IF fail
       THEN /\ last' = Raise("connect", 0, "JavaException", "backend",
                             <<_connect(conn._host, conn._port, conn._user).how>>)
            /\ UNCHANGED conn
       ELSE /\ conn' = CoreHdfsFs(conn._host, conn._port, conn._user)
            /\ last' = Outcome("connect", 0, None, None, "none", 0, <<>>,
                               <<_connect(conn._host, conn._port, conn._user).how>>)

\* the arguments a filesystem handle is constructed with
Hosts == {None, "", "default", "nn1", "nn2"}
Ports == {0, 8020, 9000}
Users == {None, "", "alice"}

\* a CoreHdfsFs whose __init__ has stored its arguments and is about to connect
InitConnect ==
    /\ conf = [n \in {"dfs.blocksize", "dfs.replication"} |-> Unset]
    /\ written = [p \in Paths |-> <<>>]
    /\ files = [p \in Paths |-> NoFile]
    /\ handles = <<>>
    /\ streams = <<>>
    /\ \E host \in Hosts, port \in Ports, user \in Users :
            conn = [_host |-> host, _port |-> port, _user |-> user, _fs |-> NoFileSystem]
    /\ ns = [p \in NsPaths |-> IF p = "/d" THEN NewDir ELSE Absent]
    /\ last = Outcome("init", 0, None, None, "none", 0, <<>>, <<>>)

NextConnect == \E fail \in BOOLEAN : last.op = "init" /\ connect(fail)

SpecConnect == InitConnect /\ [][NextConnect]_vars

\* every value a Java byte takes
JavaBytes == (-128)..127
\* the four read variants
ReadVariants == {"read", "read_chunk", "pread", "pread_chunk"}

\* the backend has put one byte v into the array of a read
InitBytes ==
    /\ conf = [n \in {"dfs.blocksize", "dfs.replication"} |-> Unset]
    /\ written = [p \in Paths |-> <<>>]
    /\ files = [p \in Paths |-> NoFile]
    /\ handles = <<>>
    /\ streams = <<>>
    /\ conn = CoreHdfsFs("default", 0, None)
    /\ ns = [p \in NsPaths |-> IF p = "/d" THEN NewDir ELSE Absent]
    /\ \E v \in JavaBytes :
            last = [Outcome("backend_read", 0, None, None, "none", 0, <<>>, <<"read">>)
                        EXCEPT !.cnt = v]

\* the read variant turns the array holding that one byte into its result
normalize(variant) ==
    LET buf == [allocate(1) EXCEPT !.data = <<last.cnt>>] IN
    /\ last.op = "backend_read"
    /\ FsFrame /\ UNCHANGED <<conn, ns>>
    /\ last' = [Outcome(variant, 0, None, None, "bytes", 0,
                        IF variant \in {"read", "read_chunk"}
                        THEN read_result(buf, 1) ELSE pread_result(buf, 1),
                        <<"read">>)
                    EXCEPT !.cnt = last.cnt]

NextBytes == \E variant \in ReadVariants : normalize(variant)

SpecBytes == InitBytes /\ [][NextBytes]_vars

(***************************************************************************)
(* The callers: any sequence of calls on the filesystem handle and on the  *)
(* file handles it has made.                                               *)
(***************************************************************************)
\* the flags the callers open with: read, create, append, and read-write
MainFlags == {O_RDONLY, O_WRONLY, O_WRONLY + O_APPEND, O_RDWR}
Lengths == (-2)..MaxLen
Sizes == 0..MaxLen
Positions == 0..MaxLen

Next ==
    \/ \E path \in Paths \cup {EmptyPath}, flags \in MainFlags, fail \in BOOLEAN :
            open_file(path, flags, 0, 1, 0, fail)
    \/ \E h \in 1..Len(handles), fail \in BOOLEAN : available(h, fail)
    \/ \E h \in 1..Len(handles) : get_mode(h)
    \/ \E h \in 1..Len(handles), fail \in BOOLEAN : close(h, fail)
    \/ \E h \in 1..Len(handles), data \in BSeq(MaxLen), fail \in BOOLEAN : write(h, data, fail)
    \/ \E h \in 1..Len(handles), chunk \in BSeq(MaxLen), fail \in BOOLEAN :
            write_chunk(h, chunk, fail)
    \/ \E h \in 1..Len(handles), data \in BSeq(1) : _write("_write", h, data, -1, FALSE)
    \/ \E h \in 1..Len(handles), fail \in BOOLEAN : tell(h, fail)
    \/ \E h \in 1..Len(handles), position \in Positions, fail \in BOOLEAN :
            seek(h, position, fail)
    \/ \E h \in 1..Len(handles), length \in Lengths, fail \in BOOLEAN : read(h, length, fail)
    \/ \E h \in 1..Len(handles), size \in Sizes, fail \in BOOLEAN : read_chunk(h, size, fail)
    \/ \E h \in 1..Len(handles), position \in Positions, length \in Lengths, fail \in BOOLEAN :
            pread(h, position, length, fail)
    \/ \E h \in 1..Len(handles), position \in Positions, size \in Sizes, fail \in BOOLEAN :
            pread_chunk(h, position, size, fail)
    \/ \E h \in 1..Len(handles), fail \in BOOLEAN : flush(h, fail)

Spec == Init /\ [][Next]_vars

(***************************************************************************)
(* Properties.                                                             *)
(***************************************************************************)
\* the handle and the backend stream a successful open_file has just returned
Opened == handles[last.h]
OpenedStream == streams[handles[last.h]._stream]

\* C1: open_file picks the stream from the flags alone: a read-only access mode
\* gives an INPUT handle over backend open, write-only with the append flag an
\* OUTPUT handle over backend append, write-only without it an OUTPUT handle over
\* backend create with overwrite true; whenever open_file returns, the handle
\* holds a live stream and records the flags it was given.
C1_StreamTypeFromFlags ==
    (last.op = "open_file" /\ last.ret = "handle") =>
        LET flags == last.arg.flags
            acc   == BitAnd(flags, O_ACCMODE)
            app   == BitAnd(flags, O_APPEND) # 0
        IN  /\ last.h \in 1..Len(handles)
            /\ Opened._stream # NoStream
            /\ ~OpenedStream.closed
            /\ Opened._mode = flags
            /\ acc \in {O_RDONLY, O_WRONLY}
            /\ acc = O_RDONLY =>
                    Opened._stream_type = _INPUT /\ OpenedStream.how = "open"
            /\ (acc = O_WRONLY /\ app) =>
                    Opened._stream_type = _OUTPUT /\ OpenedStream.how = "append"
            /\ (acc = O_WRONLY /\ ~app) =>
                    /\ Opened._stream_type = _OUTPUT
                    /\ OpenedStream.how = "create"
                    /\ last.res.overwrite

\* an existing file opened write-only with create, exclusive and append set: an
\* OUTPUT handle over backend append
C1_Witness ==
    /\ last.op = "open_file" /\ last.ret = "handle"
    /\ last.arg.flags = O_WRONLY + O_CREAT + O_EXCL + O_APPEND
    /\ Opened._stream_type = _OUTPUT
    /\ OpenedStream.how = "append"

\* C2: open_file with an access mode that is neither read-only nor write-only
\* (read-write, or the two mode bits together) always fails, at the access-mode
\* test, before any backend call and without making a handle, whatever the other
\* flag bits, the path, the buffer size, the replication and the block size are.
C2_RdwrRefused ==
    (last.op = "open_file" /\ BitAnd(last.arg.flags, O_ACCMODE) \notin {O_RDONLY, O_WRONLY}) =>
        /\ last.ret = "raise"
        /\ last.err = "IOError"
        /\ last.site = "accmode"
        /\ last.bcalls = <<>>
        /\ handles = <<>>
        /\ streams = <<>>

\* O_RDWR with create and append on an existing path, explicit sizes: refused
C2_Witness ==
    /\ last.op = "open_file"
    /\ last.arg.flags = O_RDWR + O_CREAT + O_APPEND
    /\ last.arg.path = "a" /\ files["a"].exists
    /\ last.arg.buff_size = 8 /\ last.arg.replication = 3 /\ last.arg.blocksize = 16
    /\ last.ret = "raise" /\ last.site = "accmode"

\* the calls that need an INPUT handle, and those that need an OUTPUT handle
InputCalls == {"seek", "read", "read_chunk", "pread", "pread_chunk"}
OutputCalls == {"write", "write_chunk", "flush"}

\* C3: on an OUTPUT handle seek, read, read_chunk, pread and pread_chunk always
\* fail, and on an INPUT handle write, write_chunk and flush always fail, each
\* with the stream-state error raised before any backend call, so that no
\* stream's position and no file's content changes.
C3_StreamTypeGating ==
    [][\A h \in 1..Len(handles) :
          (/\ last'.h = h
           /\ \/ last'.op \in InputCalls /\ handles[h]._stream_type = _OUTPUT
              \/ last'.op \in OutputCalls /\ handles[h]._stream_type = _INPUT)
          => /\ last'.ret = "raise"
             /\ last'.err = "IOError"
             /\ last'.site = "stream_state"
             /\ last'.bcalls = <<>>
             /\ streams' = streams
             /\ files' = files]_vars

\* a read refused on an OUTPUT handle that has bytes behind it
C3_Witness ==
    /\ last.op = "read" /\ last.h \in 1..Len(handles)
    /\ handles[last.h]._stream_type = _OUTPUT
    /\ ~StreamOf(last.h).closed
    /\ StreamOf(last.h).pos > 0
    /\ last.ret = "raise" /\ last.site = "stream_state"

\* the file-handle calls C4 names
HandleCalls == {"read", "read_chunk", "pread", "pread_chunk", "write", "write_chunk",
                "seek", "tell", "flush", "close"}

\* C4: once close() has succeeded on a File Handle, every later read, read_chunk,
\* pread, pread_chunk, write, write_chunk, seek, tell, flush and close on it fails.
C4_ClosedHandleFails ==
    [][\A h \in 1..Len(handles) :
          (/\ StreamOf(h).closed
           /\ last'.h = h
           /\ last'.op \in HandleCalls)
          => last'.ret = "raise"]_vars

\* C5: round trip: the bytes a read hands back from a path are the bytes (each
\* 0..255) the path was written from, at the offsets read; so after create,
\* write(b), close, a read-only reopen and a read of len(b) bytes yield b.
C5_RoundTrip ==
    (/\ last.op = "read" /\ last.ret = "bytes" /\ last.cnt >= 0) =>
        LET st == StreamOf(last.h)
        IN  last.bytes = SubSeq(written[st.path], st.pos - last.cnt + 1, st.pos)

\* a two-byte string with a byte above 127, written through a create handle that
\* was then closed, read back whole through a later read-only handle
C5_Witness ==
    /\ last.op = "read" /\ last.ret = "bytes" /\ last.cnt = 2
    /\ last.bytes = <<200, 65>>
    /\ Len(handles) = 2 /\ last.h = 2
    /\ handles[1]._mode = O_WRONLY /\ streams[1].closed /\ streams[1].pos = 2
    /\ handles[2]._mode = O_RDONLY /\ streams[2].path = streams[1].path

\* C6: a read at end of stream (the backend read reports -1) returns the empty
\* string and does not raise, for every requested length, the -1 default included.
C6_ReadAtEof ==
    (last.op = "read" /\ last.cnt = -1) =>
        /\ last.ret = "bytes"
        /\ last.bytes = <<>>
        /\ last.err = None

\* read(2) at the end of a non-empty file that was read to its end
C6_Witness ==
    /\ last.op = "read" /\ last.cnt = -1 /\ last.arg.length = 2
    /\ StreamOf(last.h).pos = 2
    /\ last.ret = "bytes" /\ last.bytes = <<>>

\* C7: when the positional backend read reports end of stream (-1), pread returns
\* the empty string and pread_chunk puts no bytes into the chunk, for every
\* position and every length >= 1.
C7_PreadAtEof ==
    /\ (last.op = "pread" /\ last.cnt = -1 /\ last.arg.length >= 1) =>
            (last.ret = "bytes" /\ last.bytes = <<>>)
    /\ (last.op = "pread_chunk" /\ last.cnt = -1 /\ last.arg.length >= 1) =>
            last.chunk = <<>>

\* C8: on a live INPUT handle, a successful seek(p) immediately followed by a
\* successful tell() makes tell return p, whatever came before.
C8_SeekThenTell ==
    [][(/\ last.op = "seek" /\ last.ret # "raise"
        /\ last'.op = "tell" /\ last'.h = last.h /\ last'.ret # "raise")
       => last'.num = last.arg.position]_vars

\* a seek to offset 1 of a two-byte file has just succeeded on a live INPUT
\* handle: the stream stands at 1, the value the next tell reports
C8_Witness ==
    /\ last.op = "seek" /\ last.ret # "raise"
    /\ last.arg.position = 1
    /\ Len(ContentOf(StreamOf(last.h).path)) = 2
    /\ handles[last.h]._stream_type = _INPUT
    /\ ~StreamOf(last.h).closed
    /\ StreamOf(last.h).pos = 1
    /\ ENABLED tell(last.h, FALSE)

\* C9: a pread or pread_chunk on an INPUT handle leaves the stream position (the
\* value tell returns) as it was, whether it returned bytes, hit end of stream or
\* failed.
C9_PreadKeepsPosition ==
    [][\A h \in 1..Len(handles) :
          (/\ last'.h = h
           /\ last'.op \in {"pread", "pread_chunk"}
           /\ handles[h]._stream_type = _INPUT)
          => streams'[handles[h]._stream].pos = StreamOf(h).pos]_vars

\* a pread of one byte at offset 1 that returned it, with the stream still at 0
C9_Witness ==
    /\ last.op = "pread" /\ last.ret = "bytes" /\ last.cnt = 1
    /\ last.arg.position = 1
    /\ StreamOf(last.h).pos = 0

\* C10: a write or write_chunk of L >= 0 bytes that succeeds returns L and hands
\* the backend exactly those L bytes (none for L = 0, where no backend write is
\* issued); a negative length on an OUTPUT handle fails at the length test.
C10_WriteReturnsLength ==
    [][\A h \in 1..Len(handles) :
          /\ (/\ last'.h = h
              /\ last'.op \in {"write", "write_chunk"}
              /\ last'.ret # "raise")
             => /\ last'.ret = "num"
                /\ last'.num = Len(last'.arg.data)
                /\ last'.arg.length = Len(last'.arg.data)
                /\ files'[StreamOf(h).path].data =
                        files[StreamOf(h).path].data \o jbytearray(last'.arg.data)
                /\ last'.bcalls = IF Len(last'.arg.data) = 0 THEN <<>> ELSE <<"write">>
          /\ (/\ last'.h = h
              /\ last'.op = "_write"
              /\ handles[h]._stream_type = _OUTPUT)
             => /\ last'.ret = "raise" /\ last'.site = "length"
                /\ files' = files]_vars

\* a write of two bytes accepted whole by an open create handle
C10_Witness ==
    /\ last.op = "write" /\ last.ret = "num" /\ last.num = 2
    /\ Len(last.arg.data) = 2
    /\ handles[last.h]._mode = O_WRONLY
    /\ files[StreamOf(last.h).path].data = jbytearray(last.arg.data)

\* C11: every successful non-empty write on an OUTPUT handle hands its bytes to
\* the buffering wrapper made at construction (self._buffered_stream), not to
\* the raw backend stream
C11_WriteThroughBuffer ==
    (/\ last.op \in {"write", "write_chunk"}
     /\ last.err = None
     /\ Len(last.arg.data) > 0
     /\ handles[last.h]._stream_type = _OUTPUT
     /\ handles[last.h]._buffered_stream # None)
        => last.via = "_buffered_stream"

\* C12: no backend exception reaches the caller as it is: a failing call
\* raises one of the layer's own errors, never the backend's exception
C12_NoBackendExceptionLeaks == last.err # "JavaException"

\* C13: chown with both user and group empty or absent fails as an invalid
\* argument before any backend call and changes nothing; with exactly one of
\* them supplied, on an existing path, it succeeds unless a backend call
\* throws, sets the supplied one and leaves the other and every other entry
\* as they were
C13_ChownKeepsTheOther ==
    [][last'.op = "chown" =>
        /\ (~truthy(last'.fsarg.user) /\ ~truthy(last'.fsarg.group)) =>
                /\ last'.err = "Exception"
                /\ last'.site = "both_empty"
                /\ last'.bcalls = <<>>
                /\ ns' = ns
        /\ (/\ truthy(last'.fsarg.user) # truthy(last'.fsarg.group)
            /\ last'.fsarg.path \in NsPaths
            /\ ns[last'.fsarg.path].exists) =>
                \/ /\ last'.err = None
                   /\ ns'[last'.fsarg.path] =
                        [ns[last'.fsarg.path] EXCEPT
                            !.owner = IF truthy(last'.fsarg.user)
                                      THEN last'.fsarg.user ELSE @,
                            !.group = IF truthy(last'.fsarg.group)
                                      THEN last'.fsarg.group ELSE @]
                   /\ \A q \in NsPaths \ {last'.fsarg.path} : ns'[q] = ns[q]
                \/ /\ last'.site \in {"status", "backend"}
                   /\ ns' = ns
    ]_vars

\* C13 witness: a chown that supplied only the user has returned on a path
\* whose group an earlier chown had set: the owner is the supplied one and the
\* group is still the earlier one
C13_Witness ==
    /\ last.op = "chown"
    /\ last.err = None
    /\ last.fsarg.user = "alice"
    /\ ~truthy(last.fsarg.group)
    /\ ns["/d/x"].owner = "alice"
    /\ ns["/d/x"].group = "staff"

\* the direct children the backend holds under a path
ChildrenOf(p) == {c \in NsPaths : Parent(c) = p /\ ns[c].exists}

\* C14: list_directory on a path that does not exist fails without issuing the
\* listing call, with the not-found IOError whenever the existence test itself
\* answered; on an existing directory it returns exactly one record per direct
\* child (none missing, none twice, none for another path), each carrying that
\* child's own status
C14_ListDirectory ==
    (last.op = "list_directory" /\ last.fsarg.path \in NsPaths) =>
        /\ ~ns[last.fsarg.path].exists =>
                /\ last.err # None
                /\ \A i \in 1..Len(last.bcalls) : last.bcalls[i] # "listStatus"
                /\ last.site # "backend" => (last.err = "IOError" /\ last.site = "not_found")
        /\ (ns[last.fsarg.path].exists /\ ns[last.fsarg.path].dir /\ last.err = None) =>
                /\ Len(last.infos) = Cardinality(ChildrenOf(last.fsarg.path))
                /\ \A i \in 1..Len(last.infos) : last.infos[i].name \in ChildrenOf(last.fsarg.path)
                /\ \A c \in ChildrenOf(last.fsarg.path) :
                        \E i \in 1..Len(last.infos) :
                            /\ last.infos[i].name = c
                            /\ last.infos[i].path = c
                            /\ last.infos[i].owner = ns[c].owner
                            /\ last.infos[i].group = ns[c].group
                            /\ last.infos[i].permissions = ns[c].perm
                            /\ last.infos[i].replication = ns[c].repl
                            /\ last.infos[i].last_mod = ns[c].mtime
                            /\ last.infos[i].last_access = ns[c].atime
                            /\ last.infos[i].size = ns[c].len
                            /\ last.infos[i].kind = IF ns[c].dir THEN "directory" ELSE "file"

\* C14 witness: list_directory("/d") has returned two records while the two
\* children differ in owner and in permissions
C14_Witness ==
    /\ last.op = "list_directory"
    /\ last.err = None
    /\ last.fsarg.path = "/d"
    /\ Len(last.infos) = 2
    /\ ns["/d/x"].owner = "alice"
    /\ ns["/d/y"].owner = "hdfs"
    /\ ns["/d/y"].perm = 448

\* the path-taking administrative calls C15 names, and those taking two paths
PathCalls == {"chmod", "exists", "delete", "rename", "create_directory", "set_replication",
              "utime", "set_working_directory", "get_path_info", "list_directory",
              "get_hosts", "copy", "move"}
TwoPathCalls == {"rename", "copy", "move"}

\* C15: each path-taking administrative call given an empty path fails as an
\* invalid argument (ValueError) before any backend call, and the namespace,
\* the connection and the files are as before; given non-empty paths, path
\* resolution does not fail
C15_EmptyPathFailsFirst ==
    [][last'.op \in PathCalls =>
        IF \/ last'.fsarg.path = EmptyPath
           \/ last'.op \in TwoPathCalls /\ last'.fsarg.to = EmptyPath
        THEN /\ last'.err = "ValueError"
             /\ last'.site = "empty_path"
             /\ last'.bcalls = <<>>
             /\ ns' = ns
             /\ conn' = conn
             /\ files' = files
        ELSE last'.err # "ValueError"
    ]_vars

\* C15 witness: rename of an existing path to the empty path has raised
\* ValueError with no backend call made
C15_Witness ==
    /\ last.op = "rename"
    /\ last.fsarg.path = "/d/x"
    /\ last.fsarg.to = EmptyPath
    /\ last.err = "ValueError"
    /\ last.bcalls = <<>>
    /\ ns["/d/x"].exists

\* C16: a successful connect takes exactly one of three branches: an empty or
\* absent host gives the local filesystem whatever the port is; host "default"
\* with port 0 gives the cluster's default URI; every other pair, "default"
\* with a non-zero port included, gives the explicit URI hdfs://host:port.  The
\* user reaches the backend only in the last two branches and only when it is
\* non-empty
C16_ConnectBranches ==
    (last.op = "connect" /\ last.err = None) =>
        /\ conn._fs.open
        /\ IF conn._host \in {None, ""}
           THEN /\ conn._fs.how = "getLocal(conf)"
                /\ conn._fs.uri = NoUri
                /\ conn._fs.user = None
           ELSE /\ conn._fs.uri = IF conn._host = "default" /\ conn._port = 0
                                  THEN DefaultUri
                                  ELSE [kind |-> "explicit", scheme |-> "hdfs",
                                        host |-> conn._host, port |-> conn._port]
                /\ IF conn._user \in {None, ""}
                   THEN conn._fs.how = "get(uri, conf)" /\ conn._fs.user = None
                   ELSE conn._fs.how = "get(uri, conf, user)" /\ conn._fs.user = conn._user

\* C16 witness: host "default" with a non-zero port and a user has connected
\* through the explicit URI
C16_Witness ==
    /\ last.op = "connect"
    /\ last.err = None
    /\ conn._host = "default"
    /\ conn._port = 9000
    /\ conn._user = "alice"
    /\ conn._fs.uri.kind = "explicit"
    /\ conn._fs.user = "alice"

C18_ByteNormalization ==
    (last.op \in ReadVariants /\ last.ret = "bytes" /\ last.cnt \in JavaBytes
        /\ last.bcalls = <<"read">> /\ last.h = 0) =>
        /\ Len(last.bytes) = 1
        /\ last.bytes[1] \in 0..255
        /\ last.bytes[1] = (last.cnt + 256) % 256
        /\ (last.bytes[1] - last.cnt) % 256 = 0
        /\ \A w \in JavaBytes :
                join_map([allocate(1) EXCEPT !.data = <<w>>], 1) = last.bytes => w = last.cnt

\* C18 witness: pread has delivered the negative backend byte -56 as 200
C18_Witness ==
    /\ last.op = "pread"
    /\ last.h = 0
    /\ last.cnt = -56
    /\ last.bytes = <<200>>

\* C19: a file handle's stream type and recorded flags are fixed when it is
\* made: a new handle records the flags open_file was given, no call
\* (successful or failing, close included) changes the flags or the stream type
\* of a handle, and get_mode returns the recorded flags
C19_ModeAndTypeFixed ==
    [][/\ Len(handles') >= Len(handles)
       /\ \A h \in 1..Len(handles) :
            /\ handles'[h]._mode = handles[h]._mode
            /\ handles'[h]._stream_type = handles[h]._stream_type
       /\ Len(handles') > Len(handles) =>
            /\ last'.op = "open_file"
            /\ Len(handles') = Len(handles) + 1
            /\ handles'[Len(handles')]._mode = last'.arg.flags
       /\ last'.op = "get_mode" => last'.num = handles'[last'.h]._mode
    ]_vars

\* C19 witness: get_mode on a handle opened for append and since closed has
\* returned the append flags
C19_Witness ==
    /\ last.op = "get_mode"
    /\ last.num = O_WRONLY + O_APPEND
    /\ handles[last.h]._stream_type = _OUTPUT
    /\ StreamOf(last.h).closed

\* every call made on a file handle
FileHandleCalls == {"available", "get_mode", "close", "write", "write_chunk", "_write", "tell",
                    "seek", "read", "read_chunk", "pread", "pread_chunk", "flush"}

\* C20: a call on one file handle, whatever its outcome, leaves every other
\* handle of the filesystem handle as it was (flags, stream type, and its
\* stream's position and liveness) and leaves the filesystem handle's backend
\* connection as it was, open
C20_HandlesIndependent ==
    [][last'.op \in FileHandleCalls =>
        /\ \A g \in 1..Len(handles) :
                g # last'.h =>
                    /\ handles'[g] = handles[g]
                    /\ streams'[handles'[g]._stream] = streams[handles[g]._stream]
        /\ conn' = conn
        /\ conn'._fs.open
    ]_vars

\* C20 witness: a seek on the second handle has moved it to 2 while the first
\* handle, on the same file, is open at position 1
C20_Witness ==
    /\ last.op = "seek"
    /\ last.err = None
    /\ last.h = 2
    /\ Len(handles) = 2
    /\ StreamOf(2).pos = 2
    /\ StreamOf(1).pos = 1
    /\ ~StreamOf(1).closed

\* C21: once a flush on an OUTPUT handle has returned, every byte the writes on
\* its path accepted is in the backend file, in write order, and the handle's
\* buffering wrapper holds none
C21_FlushDelivers ==
    (last.op = "flush" /\ last.err = None) =>
        /\ handles[last.h]._buffered_bytes = <<>>
        /\ ContentOf(StreamOf(last.h).path) = jbytearray(written[StreamOf(last.h).path])

\* C21 witness: a flush has returned on a live OUTPUT handle of a created file
\* through which two bytes, one above 127, were written
C21_Witness ==
    /\ last.op = "flush"
    /\ last.err = None
    /\ ~StreamOf(last.h).closed
    /\ StreamOf(last.h).how = "create"
    /\ StreamOf(last.h).pos = 2
    /\ written[StreamOf(last.h).path] = <<65, 200>>

\* C22: a read(length) that returns has issued one backend read, for an array
\* of `length` elements (BUFSIZE of them when length is -1); with n the count
\* that read reported, n is at most the array's size and the result is the
\* first n bytes the array was filled with (the n bytes of the file that end at
\* the stream's new position), normalised: never more than asked for, never a
\* byte beyond those reported
C22_ReadReturnsReported ==
    (last.op = "read" /\ last.err = None) =>
        LET st  == StreamOf(last.h)
            n   == last.cnt
            req == IF last.arg.length = -1 THEN BUFSIZE ELSE last.arg.length
        IN  /\ last.bcalls = <<"read">>
            /\ n \in (-1)..req
            /\ Len(last.bytes) = IF n < 0 THEN 0 ELSE n
            /\ Len(last.bytes) <= req
            /\ \A i \in 1..Len(last.bytes) :
                    last.bytes[i] = (ContentOf(st.path)[st.pos - n + i] + 256) % 256

\* C22 witness: a read of the default size has returned one byte, the second
\* of a file of two: the backend reported fewer bytes than the array holds
C22_Witness ==
    /\ last.op = "read"
    /\ last.err = None
    /\ last.arg.length = -1
    /\ last.cnt = 1
    /\ Len(last.bytes) = 1
    /\ StreamOf(last.h).pos = 2
    /\ Len(ContentOf(StreamOf(last.h).path)) = 2

\* the flags with the exclusive bit cleared
NoExcl(flags) == flags - BitAnd(flags, O_EXCL)

\* C23: create together with exclusive only warns.  An open_file given both
\* flags ends as the flags without the exclusive bit prescribe: the same refusal
\* (access mode, empty path), or the same backend call with the same arguments
\* (create with overwrite on when write-only without append), and then either
\* the same handle and stream or the backend call's own failure; an existing
\* file is never a reason to refuse
C23_ExclusiveOnlyWarns ==
    [][(/\ last'.op = "open_file"
        /\ BitAnd(last'.arg.flags, O_CREAT) # 0
        /\ BitAnd(last'.arg.flags, O_EXCL) # 0) =>
        LET a      == last'.arg
            g      == NoExcl(a.flags)
            am     == BitAnd(g, O_ACCMODE)
            branch == stream_branch(am, g)
        IN  IF ~accmode_ok(am)
            THEN /\ last'.err = "IOError" /\ last'.site = "accmode"
                 /\ last'.bcalls = <<>>
                 /\ handles' = handles /\ streams' = streams /\ files' = files
            ELSE IF a.path = EmptyPath
            THEN /\ last'.err = "ValueError" /\ last'.site = "empty_path"
                 /\ last'.bcalls = <<>>
                 /\ last'.res.warned
                 /\ handles' = handles /\ streams' = streams /\ files' = files
            ELSE /\ last'.res.warned
                 /\ last'.bcalls = IF branch = "create" /\ a.blocksize = 0
                                   THEN <<"getDefaultBlockSize", "create">> ELSE <<branch>>
                 /\ last'.res.overwrite = (branch = "create")
                 /\ last'.res.buff = IF branch = "append" THEN Unset
                                     ELSE default_buff_size(a.buff_size)
                 /\ last'.res.repl = IF branch = "create"
                                     THEN default_replication(am, g, a.replication) ELSE Unset
                 /\ last'.res.bs = IF branch # "create" THEN Unset
                                   ELSE IF a.blocksize = 0 THEN DefaultBlockSize ELSE a.blocksize
                 /\ \/ /\ last'.err = None
                       /\ Len(handles') = Len(handles) + 1
                       /\ handles'[last'.h]._mode = a.flags
                       /\ handles'[last'.h]._stream_type =
                            IF branch = "open" THEN _INPUT ELSE _OUTPUT
                       /\ streams'[handles'[last'.h]._stream].how = branch
                       /\ files' = IF branch = "create"
                                   THEN [files EXCEPT ![a.path] = File(<<>>)] ELSE files
                    \/ /\ last'.err = "IOError" /\ last'.site = "backend"
                       /\ handles' = handles /\ streams' = streams /\ files' = files
    ]_vars

\* C23 witness: an open_file write-only with create and exclusive set and no
\* append has returned an OUTPUT handle over a backend create with overwrite
\* on and the configured replication; the file is now empty
C23_Witness ==
    /\ last.op = "open_file"
    /\ last.err = None
    /\ last.arg.flags = O_WRONLY + O_CREAT + O_EXCL
    /\ last.res.warned
    /\ last.res.overwrite
    /\ handles[last.h]._stream_type = _OUTPUT
    /\ files[last.arg.path] = File(<<>>)
    /\ conf["dfs.replication"] = 2 /\ last.arg.replication = 0 /\ last.res.repl = 2

\* C24: an open_file that fails returns no handle and makes no stream; an
\* unsupported access mode and an empty path always fail, and fail before any
\* backend call, so that every file is as it was (none created, none truncated)
C24_FailedOpenNoEffect ==
    [][last'.op = "open_file" =>
        /\ (\/ BitAnd(last'.arg.flags, O_ACCMODE) \notin {O_RDONLY, O_WRONLY}
            \/ last'.arg.path = EmptyPath) =>
                /\ last'.err # None
                /\ last'.site \in {"accmode", "empty_path"}
                /\ last'.bcalls = <<>>
                /\ files' = files
        /\ last'.err # None =>
                /\ last'.ret = "raise"
                /\ last'.h = 0
                /\ handles' = handles
                /\ streams' = streams
    ]_vars

\* C24 witness: a write-only create on the empty path has raised ValueError
\* with no backend call made, no handle made, and the file that exists still
\* holding its two bytes
C24_Witness ==
    /\ last.op = "open_file"
    /\ last.err = "ValueError"
    /\ last.arg.path = EmptyPath
    /\ last.arg.flags = O_WRONLY + O_CREAT
    /\ last.bcalls = <<>>
    /\ handles = <<>>
    /\ Len(files["a"].data) = 2

\* C25: a chown given neither user nor group, or an empty path, or a path whose
\* status cannot be fetched (it does not exist, or the fetch throws) fails
\* without the backend setOwner call; and whenever chown fails, every path's
\* entry, owner and group included, is as it was
C25_ChownAllOrNothing ==
    [][last'.op = "chown" =>
        /\ (\/ ~truthy(last'.fsarg.user) /\ ~truthy(last'.fsarg.group)
            \/ last'.fsarg.path = EmptyPath
            \/ ~Entry(last'.fsarg.path).exists
            \/ last'.site = "status") =>
                /\ last'.err # None
                /\ \A i \in 1..Len(last'.bcalls) : last'.bcalls[i] # "setOwner"
        /\ last'.err # None =>
                /\ last'.ret = "raise"
                /\ ns' = ns
    ]_vars

\* C25 witness: a chown that supplied only a group has failed at the status
\* fetch on an existing path whose owner an earlier chown had set: owner and
\* group are what they were
C25_Witness ==
    /\ last.op = "chown"
    /\ last.err = "IOError"
    /\ last.site = "status"
    /\ last.fsarg.path = "/d/x"
    /\ last.fsarg.group = "staff"
    /\ ~truthy(last.fsarg.user)
    /\ ns["/d/x"].exists
    /\ ns["/d/x"].owner = "alice"
    /\ ns["/d/x"].group = "supergroup"
====
